---- MODULE Spec2Model ----
(***************************************************************************)
(* lsd: the orchestration pipeline of src/flags.rs and src/core.rs.        *)
(*                                                                         *)
(*   Flags::from_matches  ->  Core::new  ->  Core::run                     *)
(*                                 (fetch -> sort -> display)              *)
(*                                                                         *)
(* An Option<T> is a sequence of length 0 (None) or 1 (Some(v)).           *)
(* A &str that is parsed is a sequence of one-character strings.           *)
(***************************************************************************)
EXTENDS Integers, Sequences, FiniteSets, TLC

VARIABLES
    matches,           \* the clap ArgMatches handed to Flags::from_matches
    paths,             \* the root paths handed to Core::run
    tty_available,     \* what isatty(stdout) / terminal_size() answers
    console_color_ok,  \* what enable_ansi_support() answers (true on unix)
    pc,                \* position of the process in the pipeline
    res,               \* Result<Flags, Error> returned by from_matches
    core,              \* Option<Core>: flags, colors, icons
    inner_flags,       \* Option<Flags>: the local inner_flags of Core::new
    depth,             \* Option<usize>: the local depth of Core::fetch
    idx,               \* number of roots the loop of Core::fetch has consumed
    meta_list,         \* the Vec<Meta> built by fetch and reordered by sort
    stderr,            \* the diagnostics written by eprintln!, as root paths
    fs_log,            \* every filesystem call made so far, in order
    fs_result,         \* what the filesystem answered for each consumed root
    dispatched,        \* Option: the renderer Core::display selected
    stdout,            \* Option: what print! wrote
    exit_status        \* Option<int>: the status the process ended with

vars == <<matches, paths, tty_available, console_color_ok, pc, res, core,
          inner_flags, depth, idx, meta_list, stderr, fs_log, fs_result,
          dispatched, stdout, exit_status>>

\* ------------------------------------------------------------------ bounds

\* Longest --depth value, in characters.
MaxDepthLen == 2
\* Most root paths on a command line.
MaxPaths == 3
\* Number of distinct root paths of the modelled filesystem.
NumRoots == 3
\* Entries per directory of the modelled filesystem.
Fanout == 3
\* Levels of the modelled filesystem below which nothing is a directory.
FsDepth == 3

\* usize::max_value(); TLC's integers are 32 bits wide, and the pipeline only
\* ever compares this value with 0 and decrements it along a finite tree.
USIZE_MAX == 2147483647

None == <<>>
Some(v) == <<v>>
IsSome(o) == Len(o) = 1
Unwrap(o) == o[1]

\* ------------------------------------------------------------- flags.rs

Digits == {"0", "1", "2", "3", "4", "5", "6", "7", "8", "9"}

DigitValue(c) ==
    CASE c = "0" -> 0 [] c = "1" -> 1 [] c = "2" -> 2 [] c = "3" -> 3
      [] c = "4" -> 4 [] c = "5" -> 5 [] c = "6" -> 6 [] c = "7" -> 7
      [] c = "8" -> 8 [] c = "9" -> 9

RECURSIVE ParseDigits(_, _)
\* The digit loop of str::parse::<usize>: result = result * 10 + digit, an
\* Err on the first character that is no digit or on overflow.
ParseDigits(s, acc) ==
    IF s = <<>> THEN Some(acc)
    ELSE IF Head(s) \notin Digits THEN None
    ELSE IF acc * 10 + DigitValue(Head(s)) > USIZE_MAX THEN None
    ELSE ParseDigits(Tail(s), acc * 10 + DigitValue(Head(s)))

\* str::parse::<usize>: Err on the empty string, one leading "+" is
\* accepted, Err when no digit follows it.
ParseUsize(s) ==
    IF s = <<>> THEN None
    ELSE LET body == IF Head(s) = "+" THEN Tail(s) ELSE s
         IN  IF body = <<>> THEN None ELSE ParseDigits(body, 0)

\* inputs[inputs.len() - 1]: take only the last value.
Last(inputs) == inputs[Len(inputs)]

WhenFlagFrom(when) ==
    CASE when = "always" -> "Always"
      [] when = "auto" -> "Auto"
      [] when = "never" -> "Never"
      [] when = "long" -> "Long"

IconThemeFrom(theme) ==
    CASE theme = "fancy" -> "Fancy"
      [] theme = "unicode" -> "Unicode"

SizeFlagFrom(size) ==
    CASE size = "default" -> "Default"
      [] size = "short" -> "Short"
      [] size = "bytes" -> "Bytes"

DateFlagFrom(time) ==
    CASE time = "date" -> "Date"
      [] time = "relative" -> "Relative"

DirOrderFlagFrom(when) ==
    CASE when = "none" -> "None"
      [] when = "first" -> "First"
      [] when = "last" -> "Last"

BlockFrom(block) ==
    CASE block = "permission" -> "Permission"
      [] block = "user" -> "User"
      [] block = "group" -> "Group"
      [] block = "size" -> "Size"
      [] block = "date" -> "Date"
      [] block = "name" -> "Name"

LayoutGrid == [kind |-> "Grid", long |-> FALSE]
LayoutTree(l) == [kind |-> "Tree", long |-> l]
LayoutOneLine(l) == [kind |-> "OneLine", long |-> l]

DisplayOf(m) ==
    IF m.all THEN "DisplayAll"
    ELSE IF m.almost_all THEN "DisplayAlmostAll"
    ELSE IF m.directory_only THEN "DisplayDirectoryItself"
    ELSE "DisplayOnlyVisible"

SortByOf(m) ==
    IF m.timesort THEN "Time"
    ELSE IF m.sizesort THEN "Size"
    ELSE "Name"

SortOrderOf(m) == IF m.reverse THEN "Reverse" ELSE "Default"

LayoutOf(m) ==
    IF m.tree THEN LayoutTree(m.long)
    ELSE IF m.long THEN LayoutOneLine(TRUE)
    ELSE IF m.oneline THEN LayoutOneLine(FALSE)
    ELSE LayoutGrid

Ok(v) == [ok |-> TRUE, val |-> v]
Err(kind) == [ok |-> FALSE, kind |-> kind]

\* A later change that drops the guard of the first arm: every --depth value
\* is parsed, whether or not --recursive or --tree came with it.
RecursionDepthOf_NoGuard(m) ==
    IF IsSome(m.depth)
    THEN IF IsSome(ParseUsize(Unwrap(m.depth)))
         THEN Ok(Unwrap(ParseUsize(Unwrap(m.depth))))
         ELSE Err("ValueValidation")
    ELSE Ok(USIZE_MAX)

\* A later change that hands every unparsable value the wrong error kind.
RecursionDepthOf_WrongKind(m) ==
    IF IsSome(m.depth) /\ (m.recursive \/ LayoutOf(m) = LayoutTree(m.long))
    THEN IF IsSome(ParseUsize(Unwrap(m.depth)))
         THEN Ok(Unwrap(ParseUsize(Unwrap(m.depth))))
         ELSE Err("MissingRequiredArgument")
    ELSE IF IsSome(m.depth) THEN Err("MissingRequiredArgument")
    ELSE Ok(USIZE_MAX)

\* let recursion_depth = match matches.value_of("depth") { ... }
RecursionDepthOf(m) ==
    IF IsSome(m.depth) /\ (m.recursive \/ LayoutOf(m) = LayoutTree(m.long))
    THEN IF IsSome(ParseUsize(Unwrap(m.depth)))
         THEN Ok(Unwrap(ParseUsize(Unwrap(m.depth))))
         ELSE Err("ValueValidation")
    ELSE IF IsSome(m.depth) THEN Err("MissingRequiredArgument")
    ELSE Ok(USIZE_MAX)

\* A later change that reads long_mode from --long alone.
LongModeOf_LongOnly(m) == m.long

LongModeOf(m) == m.long \/ m.tree

from_matches(m) ==
    LET classic_mode == m.classic
        recursion_depth == RecursionDepthOf(m)
    IN  IF ~recursion_depth.ok THEN Err(recursion_depth.kind)
        ELSE Ok([display |-> DisplayOf(m),
                 layout |-> LayoutOf(m),
                 long_mode |-> LongModeOf(m),
                 display_indicators |-> m.indicators,
                 recursive |-> m.recursive,
                 recursion_depth |-> recursion_depth.val,
                 sort_by |-> SortByOf(m),
                 sort_order |-> SortOrderOf(m),
                 size |-> SizeFlagFrom(Last(m.size)),
                 blocks |-> [i \in 1..Len(m.blocks) |-> BlockFrom(m.blocks[i])],
                 date |-> IF classic_mode THEN "Date"
                          ELSE DateFlagFrom(Last(m.date)),
                 color |-> IF classic_mode THEN "Never"
                           ELSE WhenFlagFrom(Last(m.color)),
                 icon |-> IF classic_mode THEN "Never"
                          ELSE WhenFlagFrom(Last(m.icon)),
                 icon_theme |-> IconThemeFrom(Last(m.icon_theme)),
                 directory_order |-> IF classic_mode THEN "None"
                                     ELSE DirOrderFlagFrom(Last(m.group_dirs)),
                 no_symlink |-> m.no_symlink,
                 total_size |-> m.total_size])

\* -------------------------------------------------------- core.rs: new

\* A later change that lets the Auto policy colour piped output.
ColorThemeOf_AutoStyled(tty, color_ok, color) ==
    IF color = "Never" THEN "NoColor" ELSE "Default"

ColorThemeOf(tty, color_ok, color) ==
    IF color = "Never" \/ (~(tty /\ color_ok) /\ color = "Auto")
    THEN "NoColor"
    ELSE "Default"

IconThemeOf(tty, icon, long_mode, icon_theme) ==
    IF \/ icon = "Never"
       \/ (~tty /\ icon = "Auto")
       \/ (icon = "Long" /\ ~long_mode)
    THEN "NoIcon"
    ELSE IF icon_theme = "Fancy" THEN "Fancy"
    ELSE "Unicode"

\* if !tty_available { inner_flags.layout = Layout::OneLine { long: false } }
InnerFlagsOf(tty, flags) ==
    IF ~tty THEN [flags EXCEPT !.layout = LayoutOneLine(FALSE)] ELSE flags

\* ------------------------------------------------- the filesystem walked

\* A path is the sequence of its components; the roots are <<1>>, <<2>>, ...
LastComponent(p) == p[Len(p)]
IsDir(p) == Len(p) < FsDepth /\ LastComponent(p) = 1
\* read_dir yields a directory's entries in an order of its own.
ReadDir(p) == [i \in 1..Fanout |-> Append(p, Fanout + 1 - i)]
IsHidden(p) == Len(p) > 1 /\ LastComponent(p) = Fanout
SizeOf(p) == IF LastComponent(p) <= 2 THEN 1 ELSE LastComponent(p)
DateOf(p) == IF LastComponent(p) >= Fanout - 1 THEN Fanout - 1 ELSE LastComponent(p)

\* Meta::from_path, when it succeeds: the entry of one filesystem object.
MetaFromPath(p) ==
    [path |-> p, name |-> LastComponent(p), dir |-> IsDir(p),
     size |-> SizeOf(p), date |-> DateOf(p), content |-> None]

IsVisible(p, display) ==
    display \in {"DisplayAll", "DisplayAlmostAll"} \/ ~IsHidden(p)

RECURSIVE recurse_into(_, _, _)
\* Meta::recurse_into, when it succeeds: None at depth 0 and for what is no
\* directory, otherwise the entries of the directory, each recursed into
\* with depth - 1.
recurse_into(meta, d, display) ==
    IF d = 0 \/ ~meta.dir THEN None
    ELSE LET kids == SelectSeq(ReadDir(meta.path),
                               LAMBDA c : IsVisible(c, display))
         IN  Some([i \in 1..Len(kids) |->
                    [MetaFromPath(kids[i]) EXCEPT
                       !.content = recurse_into(MetaFromPath(kids[i]),
                                                d - 1, display)]])

RECURSIVE SumSizes(_)
SumSizes(metas) ==
    IF metas = <<>> THEN 0 ELSE Head(metas).size + SumSizes(Tail(metas))

RECURSIVE calculate_total_size(_)
\* Meta::calculate_total_size: a directory's size becomes its own size plus
\* the aggregated sizes of its entries, children first.
calculate_total_size(meta) ==
    IF ~IsSome(meta.content) THEN meta
    ELSE LET kids == [i \in 1..Len(Unwrap(meta.content)) |->
                        calculate_total_size(Unwrap(meta.content)[i])]
         IN  [meta EXCEPT !.content = Some(kids),
                          !.size = meta.size + SumSizes(kids)]

\* ------------------------------------------------------------ sort::by_meta

Cmp(x, y) == IF x < y THEN "Less" ELSE IF x > y THEN "Greater" ELSE "Equal"
Reverse(o) ==
    IF o = "Less" THEN "Greater" ELSE IF o = "Greater" THEN "Less" ELSE "Equal"

ByKey(a, b, flags) ==
    LET o == CASE flags.sort_by = "Name" -> Cmp(a.name, b.name)
               [] flags.sort_by = "Time" -> Cmp(a.date, b.date)
               [] flags.sort_by = "Size" -> Cmp(a.size, b.size)
    IN  IF flags.sort_order = "Reverse" THEN Reverse(o) ELSE o

\* The comparator: directory grouping ahead of the key, the key in the
\* requested direction.
by_meta(a, b, flags) ==
    CASE flags.directory_order = "First" /\ a.dir /\ ~b.dir -> "Less"
      [] flags.directory_order = "First" /\ ~a.dir /\ b.dir -> "Greater"
      [] flags.directory_order = "Last" /\ a.dir /\ ~b.dir -> "Greater"
      [] flags.directory_order = "Last" /\ ~a.dir /\ b.dir -> "Less"
      [] OTHER -> ByKey(a, b, flags)

\* ------------------------------------------------------- core.rs: fetch

\* A later change that always honours the requested depth.
EffectiveDepth_AlwaysRequested(flags) == flags.recursion_depth

\* let depth = match self.flags.layout { ... }
EffectiveDepth(flags) ==
    IF flags.layout.kind = "Tree" THEN flags.recursion_depth
    ELSE IF flags.recursive THEN flags.recursion_depth
    ELSE 1

\* ------------------------------------------------------- core.rs: sort

PermsOf(s) ==
    LET n == Len(s)
        bij == {f \in [1..n -> 1..n] : \A i, j \in 1..n : f[i] = f[j] => i = j}
    IN  {[i \in 1..n |-> s[f[i]]] : f \in bij}

IsSortedBy(s, flags) ==
    \A i \in 1..(Len(s) - 1) : by_meta(s[i], s[i + 1], flags) # "Greater"

\* slice::sort_unstable_by: the slice ends ordered by the comparator; the
\* order in which it leaves elements that compare equal is unspecified.
sort_unstable_by(s, flags) == {t \in PermsOf(s) : IsSortedBy(t, flags)}

RECURSIVE SortFrom(_, _, _)
RECURSIVE SortContent(_, _)
RECURSIVE SortContent_TopOnly(_, _)

\* A later change that sorts no content.
SortContent_TopOnly(meta, flags) == {meta}

\* if let Some(ref mut content) = meta.content { self.sort(content) }
SortContent(meta, flags) ==
    IF ~IsSome(meta.content) THEN {meta}
    ELSE {[meta EXCEPT !.content = Some(c)] :
            c \in UNION {SortFrom(t, 1, flags) :
                           t \in sort_unstable_by(Unwrap(meta.content), flags)}}

\* for meta in metas { ... }, from the i-th element on.
SortFrom(metas, i, flags) ==
    IF i > Len(metas) THEN {<<>>}
    ELSE {<<h>> \o r : h \in SortContent(metas[i], flags),
                       r \in SortFrom(metas, i + 1, flags)}

\* Core::sort: every result the call may leave in metas.
CoreSort(metas, flags) ==
    UNION {SortFrom(t, 1, flags) : t \in sort_unstable_by(metas, flags)}

\* ---------------------------------------------------- core.rs: display

\* The renderer the match on self.flags.layout selects.
RendererOf(layout) ==
    CASE layout.kind = "OneLine" -> "one_line"
      [] layout.kind = "Tree" -> "tree"
      [] layout.kind = "Grid" -> "grid"

\* ------------------------------------------------------------- actions

FromMatches ==
    /\ pc = "start"
    /\ res' = Some(from_matches(matches))
    /\ pc' = IF from_matches(matches).ok THEN "new" ELSE "config_error"
    /\ UNCHANGED <<matches, paths, tty_available, console_color_ok, core,
                   inner_flags, depth, idx, meta_list, stderr, fs_log,
                   fs_result, dispatched, stdout, exit_status>>

\* Core::new(flags): self.flags is the flags it was given; inner_flags is a
\* local that no field of Self is built from.
CoreNew ==
    /\ pc = "new"
    /\ LET flags == Unwrap(res).val
       IN  /\ inner_flags' = Some(InnerFlagsOf(tty_available, flags))
           /\ core' = Some([flags |-> flags,
                            colors |-> ColorThemeOf(tty_available,
                                                    console_color_ok,
                                                    flags.color),
                            icons |-> IconThemeOf(tty_available, flags.icon,
                                                  flags.long_mode,
                                                  flags.icon_theme)])
    /\ pc' = "run"
    /\ UNCHANGED <<matches, paths, tty_available, console_color_ok, res, depth,
                   idx, meta_list, stderr, fs_log, fs_result, dispatched,
                   stdout, exit_status>>

\* Core::fetch up to its loop.
FetchBegin ==
    /\ pc = "run"
    /\ meta_list' = <<>>
    /\ depth' = Some(EffectiveDepth(Unwrap(core).flags))
    /\ idx' = 0
    /\ pc' = "fetch"
    /\ UNCHANGED <<matches, paths, tty_available, console_color_ok, res, core,
                   inner_flags, stderr, fs_log, fs_result, dispatched, stdout,
                   exit_status>>

CanonicalizeCall(path) == <<"canonicalize", path>>
FromPathCall(path) == <<"from_path", path>>
RecurseIntoCall(path, d) == <<"recurse_into", path, d>>

\* What the filesystem may answer for one root: path resolution fails,
\* metadata extraction fails, the recursion fails, or all of them succeed.
\* recurse_into is not called under DisplayDirectoryItself.
FsAnswers(display) ==
    IF display = "DisplayDirectoryItself"
    THEN {"canonicalize_err", "from_path_err", "ok"}
    ELSE {"canonicalize_err", "from_path_err", "recurse_into_err", "ok"}

\* A later change that loses the `continue` of the last Err arm: the root
\* whose recursion failed is pushed all the same.
FetchOne_KeepFailedRoot(list, path, answer, d, display) ==
    LET meta == MetaFromPath(path)
    IN  CASE answer = "canonicalize_err" ->
               [meta_list |-> list, diag |-> <<path>>,
                calls |-> <<CanonicalizeCall(path)>>]
          [] answer = "from_path_err" ->
               [meta_list |-> list, diag |-> <<path>>,
                calls |-> <<CanonicalizeCall(path), FromPathCall(path)>>]
          [] answer = "ok" /\ display = "DisplayDirectoryItself" ->
               [meta_list |-> Append(list, meta), diag |-> <<>>,
                calls |-> <<CanonicalizeCall(path), FromPathCall(path)>>]
          [] answer = "ok" /\ display # "DisplayDirectoryItself" ->
               [meta_list |-> Append(list,
                    [meta EXCEPT !.content = recurse_into(meta, d, display)]),
                diag |-> <<>>,
                calls |-> <<CanonicalizeCall(path), FromPathCall(path),
                            RecurseIntoCall(path, d)>>]
          [] answer = "recurse_into_err" ->
               [meta_list |-> Append(list, meta), diag |-> <<path>>,
                calls |-> <<CanonicalizeCall(path), FromPathCall(path),
                            RecurseIntoCall(path, d)>>]

\* The body of the loop of Core::fetch for one root and one answer of the
\* filesystem: the list it leaves, the diagnostics it prints, the calls it
\* makes.
FetchOne(list, path, answer, d, display) ==
    LET meta == MetaFromPath(path)
    IN  CASE answer = "canonicalize_err" ->
               [meta_list |-> list, diag |-> <<path>>,
                calls |-> <<CanonicalizeCall(path)>>]
          [] answer = "from_path_err" ->
               [meta_list |-> list, diag |-> <<path>>,
                calls |-> <<CanonicalizeCall(path), FromPathCall(path)>>]
          [] answer = "ok" /\ display = "DisplayDirectoryItself" ->
               [meta_list |-> Append(list, meta), diag |-> <<>>,
                calls |-> <<CanonicalizeCall(path), FromPathCall(path)>>]
          [] answer = "ok" /\ display # "DisplayDirectoryItself" ->
               [meta_list |-> Append(list,
                    [meta EXCEPT !.content = recurse_into(meta, d, display)]),
                diag |-> <<>>,
                calls |-> <<CanonicalizeCall(path), FromPathCall(path),
                            RecurseIntoCall(path, d)>>]
          [] answer = "recurse_into_err" ->
               [meta_list |-> list, diag |-> <<path>>,
                calls |-> <<CanonicalizeCall(path), FromPathCall(path),
                            RecurseIntoCall(path, d)>>]

\* One iteration of the loop of Core::fetch, for each answer of the
\* filesystem.
FetchPath ==
    /\ pc = "fetch"
    /\ idx < Len(paths)
    /\ \E answer \in FsAnswers(Unwrap(core).flags.display) :
         LET r == FetchOne(meta_list, <<paths[idx + 1]>>, answer,
                           Unwrap(depth), Unwrap(core).flags.display)
         IN  /\ meta_list' = r.meta_list
             /\ stderr' = stderr \o r.diag
             /\ fs_log' = fs_log \o r.calls
             /\ fs_result' = Append(fs_result, answer)
    /\ idx' = idx + 1
    /\ UNCHANGED <<matches, paths, tty_available, console_color_ok, pc, res,
                   core, inner_flags, depth, dispatched, stdout, exit_status>>

\* Core::fetch after its loop: the total-size pass, then the return to run.
FetchEnd ==
    /\ pc = "fetch"
    /\ idx = Len(paths)
    /\ meta_list' = IF Unwrap(core).flags.total_size
                    THEN [i \in 1..Len(meta_list) |->
                            calculate_total_size(meta_list[i])]
                    ELSE meta_list
    /\ pc' = "sort"
    /\ UNCHANGED <<matches, paths, tty_available, console_color_ok, res, core,
                   inner_flags, depth, idx, stderr, fs_log, fs_result,
                   dispatched, stdout, exit_status>>

\* self.sort(&mut meta_list)
Sort ==
    /\ pc = "sort"
    /\ meta_list' \in CoreSort(meta_list, Unwrap(core).flags)
    /\ pc' = "display"
    /\ UNCHANGED <<matches, paths, tty_available, console_color_ok, res, core,
                   inner_flags, depth, idx, stderr, fs_log, fs_result,
                   dispatched, stdout, exit_status>>

\* self.display(meta_list): the match is on self.flags.layout, and the
\* renderer is handed &self.flags.
Display ==
    /\ pc = "display"
    /\ dispatched' = Some(Unwrap(core).flags.layout)
    /\ stdout' = Some([renderer |-> RendererOf(Unwrap(core).flags.layout),
                       flags |-> Unwrap(core).flags,
                       metas |-> meta_list])
    /\ pc' = "return"
    /\ UNCHANGED <<matches, paths, tty_available, console_color_ok, res, core,
                   inner_flags, depth, idx, meta_list, stderr, fs_log,
                   fs_result, exit_status>>

\* Core::run returns (): nothing it did reaches its caller, and the process
\* ends as one whose main returned.
Return ==
    /\ pc = "return"
    /\ exit_status' = Some(0)
    /\ pc' = "exited"
    /\ UNCHANGED <<matches, paths, tty_available, console_color_ok, res, core,
                   inner_flags, depth, idx, meta_list, stderr, fs_log,
                   fs_result, dispatched, stdout>>

Next ==
    \/ FromMatches
    \/ CoreNew
    \/ FetchBegin
    \/ FetchPath
    \/ FetchEnd
    \/ Sort
    \/ Display
    \/ Return

\* ------------------------------------------------------ initial states

\* What clap hands over when the command line is `lsd`: every switch
\* absent, every option at its default value.
BaseMatches ==
    [all |-> FALSE, almost_all |-> FALSE, directory_only |-> FALSE,
     timesort |-> FALSE, sizesort |-> FALSE, reverse |-> FALSE,
     tree |-> FALSE, long |-> FALSE, oneline |-> FALSE, recursive |-> FALSE,
     depth |-> None, no_symlink |-> FALSE, total_size |-> FALSE,
     indicators |-> FALSE, classic |-> FALSE,
     color |-> <<"auto">>, icon |-> <<"auto">>, icon_theme |-> <<"fancy">>,
     size |-> <<"default">>, date |-> <<"date">>, group_dirs |-> <<"none">>,
     blocks |-> <<"permission", "user", "group", "size", "date", "name">>]

SeqsUpTo(S, n) == UNION {[1..k -> S] : k \in 0..n}

DepthChars == {"0", "1", "2", "x", "+"}
DepthInputs == {None} \cup {Some(s) : s \in SeqsUpTo(DepthChars, MaxDepthLen)}

\* --all, --almost-all, --directory-only and none of them.
DisplayInputs ==
    {<<FALSE, FALSE, FALSE>>, <<TRUE, FALSE, FALSE>>,
     <<FALSE, TRUE, FALSE>>, <<FALSE, FALSE, TRUE>>, <<TRUE, FALSE, TRUE>>}

\* Root paths, at most MaxPaths of them; a root may be named twice.
PathSeqs == SeqsUpTo(1..NumRoots, MaxPaths)

InitWith(M, P, T, C) ==
    /\ matches \in M
    /\ paths \in P
    /\ tty_available \in T
    /\ console_color_ok \in C
    /\ pc = "start"
    /\ res = None
    /\ core = None
    /\ inner_flags = None
    /\ depth = None
    /\ idx = 0
    /\ meta_list = <<>>
    /\ stderr = <<>>
    /\ fs_log = <<>>
    /\ fs_result = <<>>
    /\ dispatched = None
    /\ stdout = None
    /\ exit_status = None

\* Command lines that differ in what Core::fetch reads.
FetchMatches ==
    {BaseMatches,
     [BaseMatches EXCEPT !.directory_only = TRUE],
     [BaseMatches EXCEPT !.recursive = TRUE, !.sizesort = TRUE],
     [BaseMatches EXCEPT !.tree = TRUE, !.depth = Some(<<"2">>), !.all = TRUE],
     [BaseMatches EXCEPT !.recursive = TRUE, !.total_size = TRUE],
     [BaseMatches EXCEPT !.depth = Some(<<"2">>)]}

Init == InitWith(FetchMatches, PathSeqs, {TRUE}, {TRUE})

Spec == Init /\ [][Next]_vars

\* Command lines that differ in layout, recursion, depth and display policy.
FlagsMatches ==
    {[BaseMatches EXCEPT !.tree = t, !.long = l, !.recursive = r, !.depth = d,
                         !.all = a[1], !.almost_all = a[2],
                         !.directory_only = a[3]] :
       t \in BOOLEAN, l \in BOOLEAN, r \in BOOLEAN, d \in DepthInputs,
       a \in DisplayInputs}

InitFlags == InitWith(FlagsMatches, {<<1>>, <<2, 1>>}, {TRUE}, {TRUE})

SpecFlags == InitFlags /\ [][Next]_vars

\* Command lines that differ in what Core::new reads.
ThemeMatches ==
    {[BaseMatches EXCEPT !.tree = t, !.long = l, !.oneline = o, !.classic = c,
                         !.directory_only = d,
                         !.color = col, !.icon = ic, !.icon_theme = th] :
       t \in BOOLEAN, l \in BOOLEAN, o \in BOOLEAN, c \in BOOLEAN,
       d \in BOOLEAN,
       col \in {<<"auto">>, <<"always">>, <<"never">>, <<"never", "always">>},
       ic \in {<<"auto">>, <<"always">>, <<"never">>, <<"long">>,
               <<"always", "long">>},
       th \in {<<"fancy">>, <<"unicode">>}}

InitTheme == InitWith(ThemeMatches, {<<1>>}, BOOLEAN, BOOLEAN)

SpecTheme == InitTheme /\ [][Next]_vars

\* Command lines that differ in what the comparator reads.
SortMatches ==
    {[BaseMatches EXCEPT !.timesort = t, !.sizesort = s, !.reverse = r,
                         !.group_dirs = g, !.total_size = ts,
                         !.recursive = rec, !.directory_only = d] :
       t \in BOOLEAN, s \in BOOLEAN, r \in BOOLEAN,
       g \in {<<"none">>, <<"first">>, <<"last">>, <<"last", "first">>},
       ts \in BOOLEAN, rec \in BOOLEAN, d \in BOOLEAN}

InitSort == InitWith(SortMatches, {<<1>>, <<2, 1>>, <<3, 1, 2>>}, {TRUE}, {TRUE})

SpecSort == InitSort /\ [][Next]_vars

\* ------------------------------------------------------------ properties

RequestedLayoutKind == LayoutOf(matches).kind

\* C1: when standard output is no tty and the requested layout is grid or
\* one-line, the layout Core::display dispatches on is OneLine { long: false }.
C1_NonTtyDispatchesOneLine ==
    (IsSome(dispatched) /\ ~tty_available
        /\ RequestedLayoutKind \in {"Grid", "OneLine"})
    => Unwrap(dispatched) = LayoutOneLine(FALSE)

\* The colour policy the command line asks for: --classic forces never,
\* otherwise the last --color value.
RequestedColor ==
    IF matches.classic THEN "never" ELSE matches.color[Len(matches.color)]

\* C2: the colour theme of Core::new follows the decision table: never gives
\* the plain theme, auto gives the styled theme exactly when stdout is a tty
\* and the console accepts ANSI, always gives the styled theme.
C2_ColorThemeTable ==
    IsSome(core) =>
        /\ RequestedColor = "never" => Unwrap(core).colors = "NoColor"
        /\ RequestedColor = "auto" =>
              (Unwrap(core).colors = "Default"
                  <=> (tty_available /\ console_color_ok))
        /\ RequestedColor = "always" => Unwrap(core).colors = "Default"

C2_Witness ==
    /\ IsSome(core)
    /\ RequestedColor = "auto"
    /\ tty_available
    /\ ~console_color_ok
    /\ Unwrap(core).colors = "NoColor"

\* The icon policy and glyph set the command line asks for.
RequestedIcon ==
    IF matches.classic THEN "never" ELSE matches.icon[Len(matches.icon)]
RequestedGlyphs == matches.icon_theme[Len(matches.icon_theme)]

\* The icon decision table, with `long_requested` deciding the Long row.
IconTable(long_requested) ==
    IF \/ RequestedIcon = "never"
       \/ (RequestedIcon = "auto" /\ ~tty_available)
       \/ (RequestedIcon = "long" /\ ~long_requested)
    THEN "NoIcon"
    ELSE IF RequestedGlyphs = "fancy" THEN "Fancy" ELSE "Unicode"

\* C3, as stated: the icon theme follows the table, the Long policy giving
\* NoIcon whenever --long is not on the command line.
C3_IconTableLongFlagOnly ==
    IsSome(core) => Unwrap(core).icons = IconTable(matches.long)

\* C3, amended: the icon theme follows the table, the Long policy giving
\* NoIcon whenever neither --long nor --tree is on the command line.
C3_IconTable ==
    IsSome(core) => Unwrap(core).icons = IconTable(matches.long \/ matches.tree)

C3_Witness ==
    /\ IsSome(core)
    /\ RequestedIcon = "long"
    /\ matches.tree
    /\ ~matches.long
    /\ RequestedGlyphs = "unicode"
    /\ Unwrap(core).icons = "Unicode"

\* C4: a --depth value without --recursive and without --tree makes
\* from_matches return MissingRequiredArgument; no Flags, no Core, no
\* filesystem call.
C4_DepthNeedsRecursion ==
    (pc # "start" /\ IsSome(matches.depth)
        /\ ~matches.recursive /\ ~matches.tree)
    => /\ pc = "config_error"
       /\ ~Unwrap(res).ok
       /\ Unwrap(res).kind = "MissingRequiredArgument"
       /\ core = None
       /\ fs_log = <<>>
       /\ meta_list = <<>>
       /\ stdout = None

C4_Witness ==
    /\ pc = "config_error"
    /\ matches.depth = Some(<<"x">>)
    /\ matches.long
    /\ ~matches.recursive
    /\ ~matches.tree
    /\ Unwrap(res).kind = "MissingRequiredArgument"

\* The positions of the roots consumed so far that the filesystem answered
\* without an error, and of those it did not, in input order.
OkPositions ==
    SelectSeq([i \in 1..Len(fs_result) |-> i], LAMBDA i : fs_result[i] = "ok")
ErrPositions ==
    SelectSeq([i \in 1..Len(fs_result) |-> i], LAMBDA i : fs_result[i] # "ok")
OkRoots == [k \in 1..Len(OkPositions) |-> <<paths[OkPositions[k]]>>]
ErrRoots == [k \in 1..Len(ErrPositions) |-> <<paths[ErrPositions[k]]>>]

\* C5: the forest fetch builds holds exactly the roots that did not fail, in
\* input order; one diagnostic per failing root and none for the others; the
\* loop consumes every root whatever failed, and the run goes on to sort.
C5_FailureIsolation ==
    /\ pc \in {"fetch", "sort"} =>
          /\ Len(fs_result) = idx
          /\ [i \in 1..Len(meta_list) |-> meta_list[i].path]
                = OkRoots
          /\ stderr = ErrRoots
    /\ pc = "fetch" => idx <= Len(paths)
    /\ pc \in {"sort", "display", "return", "exited"} =>
          /\ idx = Len(paths)
          /\ Len(fs_result) = Len(paths)
          /\ Len(meta_list) = Len(OkRoots)
          /\ stderr = ErrRoots

C5_Witness ==
    /\ pc = "sort"
    /\ Len(paths) = 3
    /\ fs_result = <<"ok", "canonicalize_err", "ok">>
    /\ Len(meta_list) = 2
    /\ meta_list[1].path = <<paths[1]>>
    /\ meta_list[2].path = <<paths[3]>>
    /\ stderr = <<(<<paths[2]>>)>>

\* C6: a run that printed a diagnostic still renders what it fetched and ends
\* with a non-zero status; a run that printed none ends with status zero.
C6_ExitStatusReflectsErrors ==
    pc = "exited" =>
        /\ IsSome(stdout)
        /\ stderr # <<>> => Unwrap(exit_status) # 0
        /\ stderr = <<>> => Unwrap(exit_status) = 0

Range(s) == {s[i] : i \in 1..Len(s)}
PathsOf(s) == [i \in 1..Len(s) |-> s[i].path]

\* The entries of level s the comparator reports equal to e, in their order.
EqualTo(s, e, flags) ==
    SelectSeq(s, LAMBDA x : by_meta(x, e, flags) = "Equal")

RECURSIVE StableAtEveryLevel(_, _, _)
\* Entries that compare equal keep their relative order, at this level and
\* in the content of every entry.
StableAtEveryLevel(before, after, flags) ==
    /\ Len(after) = Len(before)
    /\ \A i \in 1..Len(before) :
          PathsOf(EqualTo(after, before[i], flags))
             = PathsOf(EqualTo(before, before[i], flags))
    /\ \A i \in 1..Len(after) :
          IsSome(after[i].content) =>
             LET b == CHOOSE x \in Range(before) : x.path = after[i].path
             IN  /\ IsSome(b.content)
                 /\ StableAtEveryLevel(Unwrap(b.content),
                                       Unwrap(after[i].content), flags)

\* C7: Core::sort is stable at every level: entries the comparator reports
\* equal are in the same relative order after the sort as before it.
C7_SortStable ==
    [][(pc = "sort" /\ pc' = "display")
         => StableAtEveryLevel(meta_list, meta_list', Unwrap(core).flags)]_vars

\* The value a decimal numeral denotes, by position: an optional "+", then
\* digits only.
NumeralBody(s) ==
    IF s # <<>> /\ s[1] = "+" THEN SubSeq(s, 2, Len(s)) ELSE s
IsNumeral(s) ==
    /\ NumeralBody(s) # <<>>
    /\ \A i \in 1..Len(NumeralBody(s)) : NumeralBody(s)[i] \in Digits
RECURSIVE Pow10(_)
Pow10(n) == IF n = 0 THEN 1 ELSE 10 * Pow10(n - 1)
RECURSIVE PositionalSum(_, _)
PositionalSum(b, i) ==
    IF i > Len(b) THEN 0
    ELSE DigitValue(b[i]) * Pow10(Len(b) - i) + PositionalSum(b, i + 1)
NumeralValue(s) == PositionalSum(NumeralBody(s), 1)

\* The depth the command line asks for, and the depth fetch is to use.
RequestedDepth ==
    IF IsSome(matches.depth) THEN NumeralValue(Unwrap(matches.depth))
    ELSE USIZE_MAX
ExpectedDepth ==
    IF matches.tree \/ matches.recursive THEN RequestedDepth ELSE 1

RecurseCalls == SelectSeq(fs_log, LAMBDA c : c[1] = "recurse_into")
DirectoryItselfRequested ==
    matches.directory_only /\ ~matches.all /\ ~matches.almost_all

\* C8: the depth fetch uses is the requested depth (unbounded without
\* --depth) under --tree or --recursive and 1 otherwise; every recurse_into
\* call gets that depth; under DisplayDirectoryItself no root is recursed
\* into, otherwise every root whose metadata was read is.
C8_EffectiveDepth ==
    IsSome(depth) =>
        /\ Unwrap(depth) = ExpectedDepth
        /\ \A k \in 1..Len(RecurseCalls) : RecurseCalls[k][3] = ExpectedDepth
        /\ DirectoryItselfRequested => RecurseCalls = <<>>
        /\ ~DirectoryItselfRequested =>
              Len(RecurseCalls)
                 = Len(SelectSeq(fs_result,
                          LAMBDA a : a \in {"ok", "recurse_into_err"}))

C8_Witness ==
    /\ pc = "sort"
    /\ matches.tree
    /\ ~matches.recursive
    /\ matches.depth = Some(<<"0", "2">>)
    /\ Len(RecurseCalls) = 2
    /\ RecurseCalls[1][3] = 2
    /\ RecurseCalls[2][3] = 2

\* C9: a --depth value that comes with --tree or --recursive and is no
\* unsigned number makes from_matches return ValueValidation; one that is
\* makes it succeed with recursion_depth the number.
C9_DepthValueValidation ==
    (pc # "start" /\ IsSome(matches.depth)
        /\ (matches.tree \/ matches.recursive))
    => IF IsNumeral(Unwrap(matches.depth))
       THEN /\ Unwrap(res).ok
            /\ Unwrap(res).val.recursion_depth
                  = NumeralValue(Unwrap(matches.depth))
       ELSE /\ ~Unwrap(res).ok
            /\ Unwrap(res).kind = "ValueValidation"
            /\ pc = "config_error"
            /\ core = None
            /\ fs_log = <<>>

C9_Witness ==
    /\ pc = "config_error"
    /\ matches.tree
    /\ matches.depth = Some(<<"x", "x">>)
    /\ Unwrap(res).kind = "ValueValidation"

Strip(m) == [m EXCEPT !.content = None]
Count(s, e) == Cardinality({k \in 1..Len(s) : Strip(s[k]) = Strip(e)})

RECURSIVE SortedAtEveryLevel(_, _, _)
\* after holds the entries of before, ordered by the comparator, and so does
\* the content of each of them.
SortedAtEveryLevel(before, after, flags) ==
    /\ Len(after) = Len(before)
    /\ \A i \in 1..Len(before) : Count(after, before[i]) = Count(before, before[i])
    /\ IsSortedBy(after, flags)
    /\ \A i \in 1..Len(after) :
          LET b == CHOOSE x \in Range(before) : Strip(x) = Strip(after[i])
          IN  /\ IsSome(after[i].content) = IsSome(b.content)
              /\ IsSome(b.content) =>
                    SortedAtEveryLevel(Unwrap(b.content),
                                       Unwrap(after[i].content), flags)
    /\ IsSortedBy([i \in 1..Len(after) |->
                     CHOOSE x \in Range(before) : Strip(x) = Strip(after[i])],
                  flags)

\* C10: after Core::sort every level, the roots and the content of every
\* entry at every depth, is a permutation of what it was and is
\* non-decreasing under the comparator; no entry changes level, and the order
\* of a level is the same with the entries' contents as they were.
C10_EveryLevelSorted ==
    [][(pc = "sort" /\ pc' = "display")
         => SortedAtEveryLevel(meta_list, meta_list', Unwrap(core).flags)]_vars

C10_Witness ==
    /\ pc = "display"
    /\ Len(meta_list) >= 2
    /\ \E i \in 1..Len(meta_list) :
          /\ IsSome(meta_list[i].content)
          /\ \E j \in 1..Len(Unwrap(meta_list[i].content)) :
                /\ IsSome(Unwrap(meta_list[i].content)[j].content)
                /\ Len(Unwrap(Unwrap(meta_list[i].content)[j].content)) >= 2

====
